---- MODULE Spec2Model ----
(***************************************************************************)
(* A model of src-tauri/src/lib.rs: the Tauri command fetch_json.          *)
(*                                                                         *)
(* Text is a sequence of one-character strings, so that trim, to_uppercase *)
(* and percent-encoding act on characters as the code's calls do.  JSON    *)
(* text is a sequence of lexical tokens.  Each invocation of fetch_json is *)
(* an asynchronous task with two suspension points, send().await and       *)
(* json().await; the transport's answers are the environment's choice.     *)
(***************************************************************************)
EXTENDS Integers, Sequences, FiniteSets, TLC

(***************************************************************************)
(* Bounds of the model.                                                    *)
(***************************************************************************)
\* Number of concurrently running invocations of fetch_json.
NumInvocations == 2

\* Last reading of the monotonic clock, in milliseconds.
MaxClock == 2

Invocations == 1..NumInvocations

(***************************************************************************)
(* Text helpers.                                                           *)
(***************************************************************************)
LowerLetters ==
  <<"a","b","c","d","e","f","g","h","i","j","k","l","m",
    "n","o","p","q","r","s","t","u","v","w","x","y","z">>

UpperLetters ==
  <<"A","B","C","D","E","F","G","H","I","J","K","L","M",
    "N","O","P","Q","R","S","T","U","V","W","X","Y","Z">>

Digits == {"0","1","2","3","4","5","6","7","8","9"}

Range(s) == { s[k] : k \in DOMAIN s }

\* char::is_whitespace, on the characters the model uses
WhiteSpace == {" ", "\t", "\n", "\r"}

RECURSIVE TrimStart(_)
TrimStart(s) ==
  IF s = <<>> THEN <<>>
  ELSE IF Head(s) \in WhiteSpace THEN TrimStart(Tail(s)) ELSE s

RECURSIVE TrimEnd(_)
TrimEnd(s) ==
  IF s = <<>> THEN <<>>
  ELSE IF s[Len(s)] \in WhiteSpace THEN TrimEnd(SubSeq(s, 1, Len(s) - 1)) ELSE s

\* str::trim
Trim(s) == TrimEnd(TrimStart(s))

\* char::to_uppercase on one character
ToUpperChar(c) ==
  IF \E k \in DOMAIN LowerLetters : LowerLetters[k] = c
  THEN UpperLetters[CHOOSE k \in DOMAIN LowerLetters : LowerLetters[k] = c]
  ELSE c

\* str::to_uppercase
ToUppercase(s) == [k \in DOMAIN s |-> ToUpperChar(s[k])]

RECURSIVE Flatten(_)
Flatten(ss) == IF ss = <<>> THEN <<>> ELSE Head(ss) \o Flatten(Tail(ss))

\* [String]::join(sep)
RECURSIVE Join(_, _)
Join(ss, sep) ==
  IF ss = <<>> THEN <<>>
  ELSE IF Len(ss) = 1 THEN ss[1]
  ELSE ss[1] \o sep \o Join(Tail(ss), sep)

(***************************************************************************)
(* urlencoding::encode: every byte except ASCII letters, digits and        *)
(* - _ . ~ becomes %XX.                                                    *)
(***************************************************************************)
Unreserved ==
  Range(LowerLetters) \cup Range(UpperLetters) \cup Digits \cup {"-", "_", ".", "~"}

\* The two hexadecimal digits of the characters the model escapes.
HexOf(c) ==
  CASE c = " "  -> <<"2","0">>
    [] c = "#"  -> <<"2","3">>
    [] c = "%"  -> <<"2","5">>
    [] c = "&"  -> <<"2","6">>
    [] c = "+"  -> <<"2","B">>
    [] c = "/"  -> <<"2","F">>
    [] c = ":"  -> <<"3","A">>
    [] c = "="  -> <<"3","D">>
    [] c = "?"  -> <<"3","F">>
    [] c = "\t" -> <<"0","9">>
    [] c = "\n" -> <<"0","A">>
    [] c = "\r" -> <<"0","D">>

EncodeChar(c) == IF c \in Unreserved THEN <<c>> ELSE <<"%">> \o HexOf(c)

\* A slip: nothing is escaped.
UrlEncodeRaw(s) == s

UrlEncode(s) == Flatten([k \in DOMAIN s |-> EncodeChar(s[k])])

(***************************************************************************)
(* serde_json::Value.  A value is a record [t, a, m, e]: its type, the     *)
(* token of an atom, the members of an object (a sequence of <<key, value>>*)
(* pairs kept in key order without duplicates, as serde_json's map does),  *)
(* and the elements of an array.                                           *)
(***************************************************************************)
\* String tokens in the order of their contents.
KeyTokens == <<"\"a\"", "\"ok\"", "\"x\"">>

StrTokens == Range(KeyTokens)

NumTokens == {"0", "1", "404"}

JNull == [t |-> "null", a |-> "null", m |-> <<>>, e |-> <<>>]

JBool(b) == [t |-> "bool", a |-> IF b THEN "true" ELSE "false", m |-> <<>>, e |-> <<>>]

JNum(tok) == [t |-> "num", a |-> tok, m |-> <<>>, e |-> <<>>]

JStr(tok) == [t |-> "str", a |-> tok, m |-> <<>>, e |-> <<>>]

JObj(members) == [t |-> "obj", a |-> "", m |-> members, e |-> <<>>]

JArr(elems) == [t |-> "arr", a |-> "", m |-> <<>>, e |-> elems]

KeyRank(k) == CHOOSE n \in DOMAIN KeyTokens : KeyTokens[n] = k

\* Map::insert: a later member replaces an earlier one of the same key.
RECURSIVE MapInsert(_, _, _)
MapInsert(members, k, v) ==
  IF members = <<>> THEN << <<k, v>> >>
  ELSE IF Head(members)[1] = k THEN << <<k, v>> >> \o Tail(members)
  ELSE IF KeyRank(Head(members)[1]) > KeyRank(k) THEN << <<k, v>> >> \o members
  ELSE << Head(members) >> \o MapInsert(Tail(members), k, v)

\* serde_json::to_vec, as tokens
RECURSIVE Serialize(_)
Serialize(v) ==
  CASE v.t = "obj" ->
         <<"{">>
         \o Join([k \in DOMAIN v.m |-> <<v.m[k][1], ":">> \o Serialize(v.m[k][2])], <<",">>)
         \o <<"}">>
    [] v.t = "arr" ->
         <<"[">> \o Join([k \in DOMAIN v.e |-> Serialize(v.e[k])], <<",">>) \o <<"]">>
    [] OTHER -> <<v.a>>

ParseFail == [ok |-> FALSE, v |-> JNull, p |-> 0]

ParseOk(v, p) == [ok |-> TRUE, v |-> v, p |-> p]

\* serde_json's parser on a token sequence, from position p.
RECURSIVE ParseValue(_, _)
RECURSIVE ParseMembers(_, _, _)
RECURSIVE ParseElems(_, _, _)
ParseValue(toks, p) ==
  IF p > Len(toks) THEN ParseFail
  ELSE CASE toks[p] = "null" -> ParseOk(JNull, p + 1)
         [] toks[p] = "true" -> ParseOk(JBool(TRUE), p + 1)
         [] toks[p] = "false" -> ParseOk(JBool(FALSE), p + 1)
         [] toks[p] \in NumTokens -> ParseOk(JNum(toks[p]), p + 1)
         [] toks[p] \in StrTokens -> ParseOk(JStr(toks[p]), p + 1)
         [] toks[p] = "{" ->
              IF p + 1 <= Len(toks) /\ toks[p + 1] = "}"
              THEN ParseOk(JObj(<<>>), p + 2)
              ELSE ParseMembers(toks, p + 1, <<>>)
         [] toks[p] = "[" ->
              IF p + 1 <= Len(toks) /\ toks[p + 1] = "]"
              THEN ParseOk(JArr(<<>>), p + 2)
              ELSE ParseElems(toks, p + 1, <<>>)
         [] OTHER -> ParseFail

ParseMembers(toks, p, acc) ==
  IF p + 1 > Len(toks) \/ toks[p] \notin StrTokens \/ toks[p + 1] # ":"
  THEN ParseFail
  ELSE LET r == ParseValue(toks, p + 2)
           members == MapInsert(acc, toks[p], r.v)
       IN  IF ~r.ok \/ r.p > Len(toks) THEN ParseFail
           ELSE IF toks[r.p] = "}" THEN ParseOk(JObj(members), r.p + 1)
           ELSE IF toks[r.p] = "," THEN ParseMembers(toks, r.p + 1, members)
           ELSE ParseFail

ParseElems(toks, p, acc) ==
  LET r == ParseValue(toks, p)
  IN  IF ~r.ok \/ r.p > Len(toks) THEN ParseFail
      ELSE IF toks[r.p] = "]" THEN ParseOk(JArr(Append(acc, r.v)), r.p + 1)
      ELSE IF toks[r.p] = "," THEN ParseElems(toks, r.p + 1, Append(acc, r.v))
      ELSE ParseFail

\* serde_json::from_slice: one value, and nothing after it.
FromSlice(toks) ==
  LET r == ParseValue(toks, 1)
  IN  IF r.ok /\ r.p = Len(toks) + 1 THEN r ELSE ParseFail

(***************************************************************************)
(* The request, as fetch_json receives it.  An Option is a record          *)
(* [some, val].                                                            *)
(***************************************************************************)
None(empty) == [some |-> FALSE, val |-> empty]

Some(v) == [some |-> TRUE, val |-> v]

GET == <<"G","E","T">>

POST == <<"P","O","S","T">>

PUT == <<"P","U","T">>

DELETE == <<"D","E","L","E","T","E">>

\* url.trim().is_empty()
UrlLenIsZero(url) == url = <<>>

UrlIsBlank(url) == Trim(url) = <<>>

\* ["GET", "POST", "PUT", "DELETE"].contains(&method.as_str())
MethodSupported(method) == method \in {GET, POST, PUT, DELETE}

\* the match on method.as_str() that picks client.get/post/put/delete
MatchesVerb(method) ==
  method = GET \/ method = POST \/ method = PUT \/ method = DELETE

\* params.iter().map(|(k, v)| format!("{}={}", encode(k), encode(v))).join("&")
QueryString(params) ==
  Join([k \in DOMAIN params |->
          UrlEncode(params[k][1]) \o <<"=">> \o UrlEncode(params[k][2])],
       <<"&">>)

\* A slip: the query is always introduced by '?'.
SeparatorAlwaysQuestion(url) == "?"

\* if full_url.contains('?') { '&' } else { '?' }
Separator(url) == IF "?" \in Range(url) THEN "&" ELSE "?"

\* let mut full_url = url.clone(); ... full_url.push_str(&query_string)
FullUrl(url, query_params) ==
  IF query_params.some /\ query_params.val # <<>>
  THEN url \o <<Separator(url)>> \o QueryString(query_params.val)
  ELSE url

\* http::HeaderName of a caller's key: header names compare without case.
HeaderName(key) ==
  CASE key = "Content-Type" -> "content-type"
    [] key = "X-Trace" -> "x-trace"
    [] OTHER -> key

\* for (key, value) in headers_map { request = request.header(key, value) }
WithHeaders(headers) ==
  IF headers.some THEN { <<HeaderName(h[1]), h[2]>> : h \in headers.val } ELSE {}

\* A slip: the body is attached whatever the method.
CarriesBodyAlways(method) == TRUE

\* method == "POST" || method == "PUT"
CarriesBody(method) == method = POST \/ method = PUT

\* RequestBuilder::json: the serialized value as the body, and
\* Content-Type: application/json unless the request already has one.
WithJson(call, value) ==
  [call EXCEPT
     !.headers = IF \E h \in call.headers : h[1] = "content-type"
                 THEN call.headers
                 ELSE call.headers \cup { <<"content-type", "application/json">> },
     !.body = Some(Serialize(value))]

\* The outbound call fetch_json builds for a validated request.
BuildRequest(r, method) ==
  LET base == [method |-> method,
               url |-> FullUrl(r.url, r.query_params),
               headers |-> WithHeaders(r.headers),
               body |-> None(<<>>)]
  IN  IF CarriesBody(method) /\ r.body.some THEN WithJson(base, r.body.val) ELSE base

\* A slip: the call is issued a second time.
SendTwice(sent, call) == Append(Append(sent, call), call)

\* request.send(): one outbound call handed to the transport
Send(sent, call) == Append(sent, call)

(***************************************************************************)
(* The response side.                                                      *)
(***************************************************************************)
\* A slip: everything below 400 counts as success.
IsSuccessBelow400(status) == status < 400

\* StatusCode::is_success
IsSuccess(status) == 200 <= status /\ status < 300

\* response_headers.insert(key, value) for every header whose value is text;
\* a header is <<name, value, text>>, the map a set of <<name, value>>.
RECURSIVE CollectHeaders(_, _)
CollectHeaders(hs, acc) ==
  IF hs = <<>> THEN acc
  ELSE LET h == Head(hs)
       IN  CollectHeaders(Tail(hs),
             IF h[3]
             THEN { e \in acc : e[1] # h[1] } \cup { <<h[1], h[2]>> }
             ELSE acc)

\* A slip: the elapsed time is taken the wrong way round.
ElapsedMsReversed(start, now) == start - now

\* start_time.elapsed().as_millis()
ElapsedMs(start, now) == now - start

NoErr == [prefix |-> "", arg |-> <<>>]

NoEnv == [status_code |-> 0, headers |-> {}, body |-> JNull, duration_ms |-> 0]

NoResult == [done |-> FALSE, ok |-> FALSE, err |-> NoErr, env |-> NoEnv]

\* Err(format!("<prefix>{}", arg))
Err(prefix, arg) ==
  [done |-> TRUE, ok |-> FALSE, err |-> [prefix |-> prefix, arg |-> arg], env |-> NoEnv]

\* Ok(ApiResponse { status_code, headers, body, duration_ms })
Ok(env) == [done |-> TRUE, ok |-> TRUE, err |-> NoErr, env |-> env]

\* A slip: the status error does not carry the status.
HttpErrorNoStatus(status) == Err("HTTP error", <<>>)

\* Err(format!("HTTP error: {}", status_code))
HttpError(status) == Err("HTTP error: ", <<ToString(status)>>)

NoRequest ==
  [url |-> <<>>, method |-> <<>>, headers |-> None({}),
   query_params |-> None(<<>>), body |-> None(JNull)]

NoResponse ==
  [kind |-> "none", desc |-> "", status |-> 0, headers |-> <<>>,
   body |-> <<>>, body_err |-> ""]

\* The transport fails the send: connection, DNS, TLS, timeout.
TransportError(desc) == [NoResponse EXCEPT !.kind = "error", !.desc = desc]

\* The transport answers; body_err is the failure of the body's transfer, if any.
TransportResponse(status, headers, body, body_err) ==
  [kind |-> "response", desc |-> "", status |-> status, headers |-> headers,
   body |-> body, body_err |-> body_err]

(***************************************************************************)
(* The inputs the model draws from.                                        *)
(***************************************************************************)
UrlXY == <<"h","t","t","p",":","/","/","x","/","y">>

UrlWithQuery == UrlXY \o <<"?","f","o","o","=","b","a","r">>

UrlWithFragment == UrlXY \o <<"#","a","?","b">>

Urls == { <<>>, <<" ">>, <<"\t"," ","\n">>, UrlXY, UrlWithQuery, UrlWithFragment,
          <<" ">> \o UrlXY }

Methods == { GET, <<"g","e","t">>, <<"P","o","s","t">>, PUT, <<"d","e","l","e","t","e">>,
             <<"P","A","T","C","H">>, <<>>, <<" ","G","E","T">>, <<"G","E">> }

HeaderMaps == { None({}), Some({}), Some({ <<"X-Trace", "1">> }),
                Some({ <<"Content-Type", "text/plain">>, <<"X-Trace", "1">> }) }

ParamsExample == << <<<<"a">>, <<"1"," ","2">>>>, <<<<"b">>, <<"c","&","d">>>> >>

ParamLists == { None(<<>>), Some(<<>>), Some(ParamsExample),
                Some(<< <<<<"k">>, <<"v">>>>, <<<<"k">>, <<"w">>>> >>),
                Some(<< <<<<>>, <<>>>> >>),
                Some(<< <<<<"a","=","b">>, <<"?","#">>>>, <<<<"%">>, <<"~","+">>>> >>) }

BodyX1 == JObj(<< <<"\"x\"", JNum("1")>> >>)

RequestBodies == { None(JNull), Some(BodyX1), Some(JArr(<<JNull, JBool(TRUE)>>)) }

Requests ==
  [url : Urls, method : Methods, headers : HeaderMaps,
   query_params : ParamLists, body : RequestBodies]

\* A few requests, for the specifications that vary the transport's answer.
SampleRequests ==
  { [NoRequest EXCEPT !.url = UrlXY, !.method = <<"g","e","t">>],
    [NoRequest EXCEPT !.url = UrlXY, !.method = POST,
                      !.query_params = Some(ParamsExample), !.body = Some(BodyX1)],
    [NoRequest EXCEPT !.url = <<" ">>, !.method = GET],
    [NoRequest EXCEPT !.url = UrlXY, !.method = <<"P","A","T","C","H">>] }

BodyOkTrue == <<"{", "\"ok\"", ":", "true", "}">>

BodyNotJson == <<"not", "json">>

ResponseBodies ==
  { BodyOkTrue, BodyNotJson, <<>>, <<"{", "\"ok\"", ":">>, <<"true", "true">>,
    <<"[", "1", ",", "null", "]">>,
    <<"{", "\"x\"", ":", "0", ",", "\"a\"", ":", "1", ",", "\"x\"", ":", "1", "}">> }

HeadersJson == << <<"content-type", "application/json", TRUE>> >>

HeaderLists ==
  { <<>>, HeadersJson,
    << <<"set-cookie", "a", TRUE>>, <<"set-cookie", "b", TRUE>>,
       <<"set-cookie", "bytes", FALSE>>, <<"x-bin", "bytes", FALSE>> >> }

Statuses == {200, 201, 204, 301, 404, 500}

TransportFailures == {"connection refused", "operation timed out"}

Outcomes ==
  { TransportError(d) : d \in TransportFailures }
  \cup { TransportResponse(st, hs, b, be) :
           st \in Statuses, hs \in HeaderLists, b \in ResponseBodies,
           be \in {"", "operation timed out"} }

\* A few answers, for the specifications that vary the request.
SampleOutcomes ==
  { TransportError("connection refused"),
    TransportResponse(200, HeadersJson, BodyOkTrue, ""),
    TransportResponse(200, <<>>, BodyNotJson, ""),
    TransportResponse(404, HeadersJson, BodyOkTrue, "") }

\* What the concurrent invocations are called with, and are answered.
ConcurrentRequests ==
  { [NoRequest EXCEPT !.url = UrlXY, !.method = <<"g","e","t">>],
    [NoRequest EXCEPT !.url = <<" ">>, !.method = GET] }

ConcurrentOutcomes ==
  { TransportError("operation timed out"),
    TransportResponse(200, HeadersJson, BodyOkTrue, ""),
    TransportResponse(200, HeadersJson, BodyOkTrue, "operation timed out"),
    TransportResponse(404, HeadersJson, BodyOkTrue, "") }

(***************************************************************************)
(* The state: a clock, and for each invocation its position, its request,  *)
(* what it has done and what it returned.                                  *)
(***************************************************************************)
VARIABLES
  clock,       \* Instant::now(), in milliseconds
  pc,          \* "idle", "send" (send().await), "json" (json().await), "done"
  req,         \* the arguments of the invocation
  start_time,  \* let start_time = Instant::now()
  client,      \* "none", "built", "failed": reqwest::Client::builder()...build()
  sent,        \* the outbound calls the invocation handed to the transport
  resp,        \* what the transport answered
  parsed,      \* how many times the invocation read and parsed a response body
  result,      \* the Result the invocation returned
  returns      \* how many times the invocation returned

vars ==
  <<clock, pc, req, start_time, client, sent, resp, parsed, result, returns>>

Init ==
  /\ clock = 0
  /\ pc = [i \in Invocations |-> "idle"]
  /\ req = [i \in Invocations |-> NoRequest]
  /\ start_time = [i \in Invocations |-> 0]
  /\ client = [i \in Invocations |-> "none"]
  /\ sent = [i \in Invocations |-> <<>>]
  /\ resp = [i \in Invocations |-> NoResponse]
  /\ parsed = [i \in Invocations |-> 0]
  /\ result = [i \in Invocations |-> NoResult]
  /\ returns = [i \in Invocations |-> 0]

\* return r: the invocation's future resolves.
Return(i, r) ==
  /\ pc' = [pc EXCEPT ![i] = "done"]
  /\ result' = [result EXCEPT ![i] = r]
  /\ returns' = [returns EXCEPT ![i] = @ + 1]

\* The invocation suspends at an .await.
Suspend(i, at) ==
  /\ pc' = [pc EXCEPT ![i] = at]
  /\ UNCHANGED <<result, returns>>

\* fetch_json from its first line to send().await: validation, the client,
\* the URL, the request, its headers and body, and the send.
Invoke(i, r) ==
  /\ pc[i] = "idle"
  /\ req' = [req EXCEPT ![i] = r]
  /\ start_time' = [start_time EXCEPT ![i] = clock]
  /\ UNCHANGED <<clock, resp, parsed>>
  /\ LET method == ToUppercase(r.method)
     IN  IF UrlIsBlank(r.url)
         THEN /\ Return(i, Err("URL cannot be empty", <<>>))
              /\ UNCHANGED <<client, sent>>
         ELSE IF ~MethodSupported(method)
         THEN /\ Return(i, Err("Unsupported HTTP method: ", method))
              /\ UNCHANGED <<client, sent>>
         ELSE \E built \in BOOLEAN :
                IF ~built
                THEN /\ client' = [client EXCEPT ![i] = "failed"]
                     /\ Return(i, Err("Failed to create HTTP client: ", <<"builder error">>))
                     /\ UNCHANGED sent
                ELSE /\ client' = [client EXCEPT ![i] = "built"]
                     /\ IF ~MatchesVerb(method)
                        THEN /\ Return(i, Err("Unsupported method: ", method))
                             /\ UNCHANGED sent
                        ELSE /\ sent' = [sent EXCEPT ![i] = Send(@, BuildRequest(r, method))]
                             /\ Suspend(i, "send")

\* send().await completes with the transport's outcome o: the error is mapped,
\* or the status and the headers are read and the status is checked.
SendComplete(i, o) ==
  /\ pc[i] = "send"
  /\ resp' = [resp EXCEPT ![i] = o]
  /\ UNCHANGED <<clock, req, start_time, client, sent, parsed>>
  /\ IF o.kind = "error"
     THEN Return(i, Err("Network error: ", <<o.desc>>))
     ELSE IF ~IsSuccess(o.status)
     THEN Return(i, HttpError(o.status))
     ELSE Suspend(i, "json")

\* Lines 113 to 126 on the response o: the body is read and parsed, the
\* elapsed time is taken and the envelope built.
JsonResult(o, start, now) ==
  LET json == FromSlice(o.body)
  IN  IF o.body_err # ""
      THEN Err("Invalid JSON response: ", <<o.body_err>>)
      ELSE IF ~json.ok
      THEN Err("Invalid JSON response: ", <<"expected value">>)
      ELSE Ok([status_code |-> o.status,
               headers |-> CollectHeaders(o.headers, {}),
               body |-> json.v,
               duration_ms |-> ElapsedMs(start, now)])

\* A slip: the start time is kept in one place for all invocations.
JsonCompleteSharedStart(i) ==
  /\ pc[i] = "json"
  /\ parsed' = [parsed EXCEPT ![i] = @ + 1]
  /\ UNCHANGED <<clock, req, start_time, client, sent, resp>>
  /\ Return(i, JsonResult(resp[i], start_time[1], clock))

\* A slip: a body that does not parse leaves the invocation waiting.
JsonCompleteHang(i) ==
  /\ pc[i] = "json"
  /\ UNCHANGED <<clock, req, start_time, client, sent, resp>>
  /\ LET r == JsonResult(resp[i], start_time[i], clock)
     IN  IF r.ok
         THEN parsed' = [parsed EXCEPT ![i] = @ + 1] /\ Return(i, r)
         ELSE UNCHANGED <<parsed, pc, result, returns>>

\* response.json().await completes, and fetch_json returns.
JsonComplete(i) ==
  /\ pc[i] = "json"
  /\ parsed' = [parsed EXCEPT ![i] = @ + 1]
  /\ UNCHANGED <<clock, req, start_time, client, sent, resp>>
  /\ Return(i, JsonResult(resp[i], start_time[i], clock))

\* Time passes.
Tick ==
  /\ clock < MaxClock
  /\ clock' = clock + 1
  /\ UNCHANGED <<pc, req, start_time, client, sent, resp, parsed, result, returns>>

\* Concurrent invocations, any interleaving.
Next ==
  \/ \E i \in Invocations : \E r \in ConcurrentRequests : Invoke(i, r)
  \/ \E i \in Invocations : \E o \in ConcurrentOutcomes : SendComplete(i, o)
  \/ \E i \in Invocations : JsonComplete(i)
  \/ Tick

Spec == Init /\ [][Next]_vars

\* One invocation, every request of Requests.
NextRequests ==
  \/ \E r \in Requests : Invoke(1, r)
  \/ \E o \in SampleOutcomes : SendComplete(1, o)
  \/ JsonComplete(1)

SpecRequests == Init /\ [][NextRequests]_vars

\* One invocation, every outcome of Outcomes.
NextResponses ==
  \/ \E r \in SampleRequests : Invoke(1, r)
  \/ \E o \in Outcomes : SendComplete(1, o)
  \/ JsonComplete(1)
  \/ Tick

SpecResponses == Init /\ [][NextResponses]_vars

\* The runtime polls every ready task, and the transport answers, fails or
\* times out: a pending wait completes.
Fairness ==
  \A i \in Invocations :
    /\ WF_vars(\E o \in ConcurrentOutcomes : SendComplete(i, o))
    /\ WF_vars(JsonComplete(i))

FairSpec == Init /\ [][Next]_vars /\ Fairness

(***************************************************************************)
(* What the claims speak of, stated apart from the code's own operators.   *)
(***************************************************************************)
FourVerbs == {GET, POST, PUT, DELETE}

SameLetter(a, b) ==
  \/ a = b
  \/ \E k \in DOMAIN LowerLetters :
       {a, b} = {LowerLetters[k], UpperLetters[k]}

EqualIgnoringCase(s, t) ==
  Len(s) = Len(t) /\ \A k \in DOMAIN s : SameLetter(s[k], t[k])

IsVerbIgnoringCase(m) == \E v \in FourVerbs : EqualIgnoringCase(m, v)

AllWhitespace(url) == \A k \in DOMAIN url : url[k] \in WhiteSpace

Rejected(r) == AllWhitespace(r.url) \/ ~IsVerbIgnoringCase(r.method)

Started(i) == pc[i] # "idle"

Done(i) == pc[i] = "done"

Failed(i, prefix) == Done(i) /\ ~result[i].ok /\ result[i].err.prefix = prefix

InputErrors == {"URL cannot be empty", "Unsupported HTTP method: ", "Unsupported method: "}

Is2xx(status) == status \in 200..299

\* C1: a request whose url is blank or whose method is none of the four verbs
\* (case ignored) ends in an input error with no outbound call; and every
\* outbound call carries one of the four verbs for a url that is not blank.
C1_InvalidInputNoIO ==
  \A i \in Invocations :
    /\ (Started(i) /\ Rejected(req[i])) =>
         /\ Done(i) /\ ~result[i].ok
         /\ result[i].err.prefix \in InputErrors
         /\ sent[i] = <<>>
    /\ \A k \in DOMAIN sent[i] :
         /\ sent[i][k].method \in FourVerbs
         /\ EqualIgnoringCase(sent[i][k].method, req[i].method)
         /\ ~AllWhitespace(req[i].url)

C1_Witness ==
  \E i \in Invocations :
    /\ Failed(i, "Unsupported HTTP method: ")
    /\ req[i].method = <<"P","A","T","C","H">>
    /\ req[i].url = UrlXY
    /\ sent[i] = <<>>

\* C2 as stated: every invocation that passes validation performs exactly one
\* outbound call, and none more than one.
C2_Original ==
  \A i \in Invocations :
    /\ Len(sent[i]) <= 1
    /\ (Started(i) /\ ~Rejected(req[i])) => Len(sent[i]) = 1

\* C2, amended: every invocation that passes validation and whose HTTP client
\* is built performs exactly one outbound call; an invocation whose client
\* cannot be built performs none; no invocation performs more than one, also
\* after a transport failure, a non-2xx status or a JSON parse failure.
C2_ExactlyOneCall ==
  \A i \in Invocations :
    /\ Len(sent[i]) <= 1
    /\ (Started(i) /\ ~Rejected(req[i]) /\ client[i] = "built") => Len(sent[i]) = 1
    /\ client[i] # "built" => sent[i] = <<>>

C2_Witness ==
  \E i \in Invocations :
    /\ Failed(i, "Network error: ")
    /\ Len(sent[i]) = 1

\* C3: every response whose status is not 2xx ends in "HTTP error: <status>",
\* whatever its body; the body is never parsed and nothing of the response but
\* the status number reaches the caller.
C3_HttpStatusError ==
  \A i \in Invocations :
    (resp[i].kind = "response" /\ ~Is2xx(resp[i].status)) =>
      /\ Failed(i, "HTTP error: ")
      /\ result[i].err.arg = <<ToString(resp[i].status)>>
      /\ result[i].env = NoEnv
      /\ parsed[i] = 0

C3_Witness ==
  \E i \in Invocations :
    /\ Failed(i, "HTTP error: ")
    /\ result[i].err.arg = <<"404">>
    /\ resp[i].body = BodyOkTrue
    /\ parsed[i] = 0

\* The bodies of ResponseBodies that are JSON, with the value of each.
JsonBodies ==
  { BodyOkTrue, <<"[", "1", ",", "null", "]">>,
    <<"{", "\"x\"", ":", "0", ",", "\"a\"", ":", "1", ",", "\"x\"", ":", "1", "}">> }

ValueOf(body) ==
  CASE body = BodyOkTrue -> JObj(<< <<"\"ok\"", JBool(TRUE)>> >>)
    [] body = <<"[", "1", ",", "null", "]">> -> JArr(<<JNum("1"), JNull>>)
    [] OTHER -> JObj(<< <<"\"a\"", JNum("1")>>, <<"\"x\"", JNum("1")>> >>)

\* C4: on a 2xx response the invocation succeeds exactly when the body is read
\* and parses as JSON: the envelope then has the transport's status, the parsed
\* value and a duration_ms >= 0; otherwise it fails with "Invalid JSON
\* response" and returns no envelope.
C4_SuccessIffJson ==
  \A i \in Invocations :
    (Done(i) /\ resp[i].kind = "response" /\ Is2xx(resp[i].status)) =>
      IF resp[i].body_err = "" /\ resp[i].body \in JsonBodies
      THEN /\ result[i].ok
           /\ result[i].env.status_code = resp[i].status
           /\ result[i].env.body = ValueOf(resp[i].body)
           /\ result[i].env.duration_ms >= 0
      ELSE /\ Failed(i, "Invalid JSON response: ")
           /\ result[i].env = NoEnv

C4_Witness ==
  \E i \in Invocations :
    /\ Done(i) /\ result[i].ok
    /\ resp[i].status = 201
    /\ resp[i].body = BodyOkTrue
    /\ result[i].env.body = JObj(<< <<"\"ok\"", JBool(TRUE)>> >>)
    /\ result[i].env.duration_ms > 0

\* RFC 3986: the query component starts at the first '?' before any '#'.
HasQueryComponent(url) ==
  \E k \in DOMAIN url : url[k] = "?" /\ \A j \in 1..(k - 1) : url[j] # "#"

ContainsQuestionMark(url) == \E k \in DOMAIN url : url[k] = "?"

HasParams(r) == r.query_params.some /\ Len(r.query_params.val) > 0

\* The outbound url is the supplied url, then '&' if amp and '?' if not, then
\* a query string.
JoinedWith(call, url, amp) ==
  /\ Len(call.url) > Len(url)
  /\ SubSeq(call.url, 1, Len(url)) = url
  /\ call.url[Len(url) + 1] = IF amp THEN "&" ELSE "?"

\* C5 as stated: the query string is joined with '&' if url has a query
\* component and with '?' if it has none; without params the url is unchanged.
C5_Original ==
  \A i \in Invocations : \A k \in DOMAIN sent[i] :
    IF HasParams(req[i])
    THEN JoinedWith(sent[i][k], req[i].url, HasQueryComponent(req[i].url))
    ELSE sent[i][k].url = req[i].url

\* C5, amended: the query string is joined with '&' if url contains a '?'
\* anywhere, also inside its fragment, and with '?' if it contains none;
\* without params, or with an empty list, the outbound url is the supplied url.
C5_QuerySeparator ==
  \A i \in Invocations : \A k \in DOMAIN sent[i] :
    IF HasParams(req[i])
    THEN JoinedWith(sent[i][k], req[i].url, ContainsQuestionMark(req[i].url))
    ELSE sent[i][k].url = req[i].url

C5_Witness ==
  \E i \in Invocations :
    /\ Len(sent[i]) = 1
    /\ req[i].url = UrlWithQuery
    /\ HasParams(req[i])
    /\ sent[i][1].url[Len(UrlWithQuery) + 1] = "&"

(***************************************************************************)
(* Reading a query string back: split at '&', each pair at its first '=',  *)
(* and the escapes undone.                                                 *)
(***************************************************************************)
IndexOf(s, c) == CHOOSE k \in DOMAIN s : s[k] = c /\ \A j \in 1..(k - 1) : s[j] # c

RECURSIVE SplitOn(_, _)
SplitOn(s, c) ==
  IF c \notin Range(s) THEN <<s>>
  ELSE <<SubSeq(s, 1, IndexOf(s, c) - 1)>>
       \o SplitOn(SubSeq(s, IndexOf(s, c) + 1, Len(s)), c)

CharOfHex(h) ==
  CASE h = <<"2","0">> -> " "
    [] h = <<"2","3">> -> "#"
    [] h = <<"2","5">> -> "%"
    [] h = <<"2","6">> -> "&"
    [] h = <<"2","B">> -> "+"
    [] h = <<"3","D">> -> "="
    [] h = <<"3","F">> -> "?"
    [] OTHER -> "undecodable"

RECURSIVE PercentDecode(_)
PercentDecode(s) ==
  IF s = <<>> THEN <<>>
  ELSE IF Head(s) = "%" /\ Len(s) >= 3
  THEN <<CharOfHex(SubSeq(s, 2, 3))>> \o PercentDecode(SubSeq(s, 4, Len(s)))
  ELSE <<Head(s)>> \o PercentDecode(Tail(s))

DecodePair(piece) ==
  IF "=" \notin Range(piece) THEN <<PercentDecode(piece)>>
  ELSE <<PercentDecode(SubSeq(piece, 1, IndexOf(piece, "=") - 1)),
         PercentDecode(SubSeq(piece, IndexOf(piece, "=") + 1, Len(piece)))>>

DecodeQuery(q) == LET pieces == SplitOn(q, "&") IN [k \in DOMAIN pieces |-> DecodePair(pieces[k])]

Count(s, c) == Cardinality({ k \in DOMAIN s : s[k] = c })

\* "http://x/y?a=1%202&b=c%26d"
UrlExample ==
  UrlXY \o <<"?","a","=","1","%","2","0","2","&","b","=","c","%","2","6","d">>

\* C6: the appended query string holds the pairs in their order, duplicates
\* kept, each as escaped key, '=', escaped value, joined by '&'; reserved
\* characters of a key or value are escaped, so that reading the query string
\* back gives the pairs supplied; [("a","1 2"),("b","c&d")] on "http://x/y"
\* gives "http://x/y?a=1%202&b=c%26d".
C6_QueryStringEncoding ==
  \A i \in Invocations : \A k \in DOMAIN sent[i] :
    HasParams(req[i]) =>
      LET url == sent[i][k].url
          params == req[i].query_params.val
          q == SubSeq(url, Len(req[i].url) + 2, Len(url))
      IN  /\ DecodeQuery(q) = params
          /\ Count(q, "&") = Len(params) - 1
          /\ Count(q, "=") = Len(params)
          /\ Range(q) \cap {" ", "?", "#", "+"} = {}
          /\ (req[i].url = UrlXY /\ params = ParamsExample) => url = UrlExample

C6_Witness ==
  \E i \in Invocations :
    /\ Len(sent[i]) = 1
    /\ req[i].query_params = Some(ParamsExample)
    /\ sent[i][1].url = UrlExample

SerializedOf(value) ==
  CASE value = BodyX1 -> <<"{", "\"x\"", ":", "1", "}">>
    [] OTHER -> <<"[", "null", ",", "true", "]">>

ContentTypes(headers) == { h[2] : h \in { e \in headers : e[1] \in {"content-type", "Content-Type"} } }

CallerHeaders(r) == IF r.headers.some THEN r.headers.val ELSE {}

\* The call carries a body exactly when the method is POST or PUT and a body
\* is supplied, and the body is then the supplied value's JSON text.
BodyAttached(i, call) ==
  /\ call.body.some <=> (call.method \in {POST, PUT} /\ req[i].body.some)
  /\ call.body.some => call.body.val = SerializedOf(req[i].body.val)

\* A body supplied with GET or DELETE stops nothing: once the client is built
\* the call is sent, without a body.
BodyIgnored(i) ==
  (/\ Started(i) /\ ~Rejected(req[i]) /\ client[i] = "built"
   /\ req[i].body.some
   /\ \E v \in {GET, DELETE} : EqualIgnoringCase(req[i].method, v))
  => (Len(sent[i]) = 1 /\ ~sent[i][1].body.some /\ ~Failed(i, "Unsupported method: "))

\* C7 as stated: a body is carried exactly for POST or PUT with a body
\* supplied, as JSON text with a JSON content-type; with GET or DELETE a
\* supplied body is ignored and the call proceeds.
C7_Original ==
  \A i \in Invocations :
    /\ BodyIgnored(i)
    /\ \A k \in DOMAIN sent[i] :
         /\ BodyAttached(i, sent[i][k])
         /\ sent[i][k].body.some => ContentTypes(sent[i][k].headers) = {"application/json"}

\* C7, amended: as stated, but the content-type is JSON only when the caller's
\* headers name no Content-Type; a Content-Type the caller supplies is sent
\* as supplied.
C7_BodyOnlyForPostPut ==
  \A i \in Invocations :
    /\ BodyIgnored(i)
    /\ \A k \in DOMAIN sent[i] :
         /\ BodyAttached(i, sent[i][k])
         /\ sent[i][k].body.some =>
              ContentTypes(sent[i][k].headers) =
                IF ContentTypes(CallerHeaders(req[i])) = {}
                THEN {"application/json"}
                ELSE ContentTypes(CallerHeaders(req[i]))

C7_Witness ==
  \E i \in Invocations :
    /\ Len(sent[i]) = 1
    /\ sent[i][1].method = POST
    /\ req[i].body = Some(BodyX1)
    /\ sent[i][1].body = Some(<<"{", "\"x\"", ":", "1", "}">>)
    /\ <<"content-type", "application/json">> \in sent[i][1].headers

\* All that an invocation holds.
Local(i) ==
  <<pc[i], req[i], start_time[i], client[i], sent[i], resp[i], parsed[i],
    result[i], returns[i]>>

\* A result without its timing.
Untimed(r) == [r EXCEPT !.env.duration_ms = 0]

\* Two invocations given the same request, client and transport answer return
\* the same, whatever the other invocations did in between.
OwnInputsDecide ==
  \A i, j \in Invocations :
    (Done(i) /\ Done(j) /\ req[i] = req[j] /\ client[i] = client[j] /\ resp[i] = resp[j])
    => Untimed(result[i]) = Untimed(result[j])

\* duration_ms is the time from the invocation's own start to its own return.
OwnDuration ==
  \A i \in Invocations :
    (~Done(i) /\ Done(i)' /\ result[i]'.ok)
    => result[i]'.env.duration_ms = clock - start_time[i]

\* A step of one invocation leaves every other invocation as it was.
StepsAreLocal ==
  \A i, j \in Invocations : (i # j /\ Local(i)' # Local(i)) => Local(j)' = Local(j)

\* C8: with invocations running concurrently in any interleaving, each one's
\* result depends only on its own request and its own transport answer, no
\* step of one touches another, and each duration_ms is the time from that
\* invocation's own start to its own completion.
C8_InvocationsIndependent ==
  /\ []OwnInputsDecide
  /\ [][StepsAreLocal /\ OwnDuration]_vars

\* Invocation 2 starts after invocation 1 and completes before it.
C8_Witness ==
  /\ result[1].ok /\ result[2].ok
  /\ start_time[1] = 0
  /\ start_time[2] = 1
  /\ result[1].env.duration_ms = 2
  /\ result[2].env.duration_ms = 0

Kind(r) ==
  CASE r.ok -> "Envelope"
    [] r.err.prefix \in InputErrors -> "InvalidInput"
    [] r.err.prefix = "Network error: " -> "NetworkError"
    [] r.err.prefix = "HTTP error: " -> "HttpStatusError"
    [] r.err.prefix = "Invalid JSON response: " -> "InvalidResponse"
    [] r.err.prefix = "Failed to create HTTP client: " -> "ClientError"
    [] OTHER -> "Unknown"

\* The first stage that fails, in the order validation, client, send, status
\* check, JSON parse.
FirstFailure(i) ==
  IF Rejected(req[i]) THEN "InvalidInput"
  ELSE IF client[i] = "failed" THEN "ClientError"
  ELSE IF resp[i].kind = "error" THEN "NetworkError"
  ELSE IF ~Is2xx(resp[i].status) THEN "HttpStatusError"
  ELSE IF resp[i].body_err # "" \/ resp[i].body \notin JsonBodies THEN "InvalidResponse"
  ELSE "Envelope"

\* C9 as stated: every invocation ends in an envelope or in an error of one of
\* the four kinds InvalidInput, NetworkError, HttpStatusError, InvalidResponse,
\* the kind of the first failing stage; no other failure is reachable.
C9_Original ==
  \A i \in Invocations :
    Done(i) =>
      /\ Kind(result[i]) \in
           {"Envelope", "InvalidInput", "NetworkError", "HttpStatusError", "InvalidResponse"}
      /\ Kind(result[i]) = FirstFailure(i)

\* C9, amended: every invocation ends in an envelope or in an error of one of
\* five kinds: the four stated and "Failed to create HTTP client", returned
\* when the client cannot be built after validation and before the send; the
\* kind is that of the first failing stage in the order validation, client
\* construction, send, status check, JSON parse.
C9_OutcomeKinds ==
  \A i \in Invocations :
    Done(i) =>
      /\ Kind(result[i]) \in
           {"Envelope", "InvalidInput", "ClientError", "NetworkError",
            "HttpStatusError", "InvalidResponse"}
      /\ Kind(result[i]) = FirstFailure(i)

C9_Witness ==
  \E i \in Invocations :
    /\ Done(i)
    /\ Kind(result[i]) = "InvalidResponse"
    /\ resp[i].status = 204
    /\ resp[i].body = <<>>

ReturnedOnce == \A i \in Invocations : returns[i] = IF Done(i) THEN 1 ELSE 0

DoneIsFinal == \A i \in Invocations : Done(i) => (Done(i)' /\ result[i]' = result[i])

\* The timeout cut the send off.
SendTimedOut(i) == resp[i].kind = "error" /\ resp[i].desc = "operation timed out"

\* The timeout cut the reading of the body off.
BodyTimedOut(i) ==
  Done(i) /\ resp[i].kind = "response" /\ Is2xx(resp[i].status)
  /\ resp[i].body_err = "operation timed out"

TimeoutIsNetworkError ==
  \A i \in Invocations :
    (SendTimedOut(i) \/ BodyTimedOut(i)) => Failed(i, "Network error: ")

TimeoutSurfaces ==
  \A i \in Invocations :
    /\ SendTimedOut(i) => Failed(i, "Network error: ")
    /\ BodyTimedOut(i) => Failed(i, "Invalid JSON response: ")

\* C10 as stated: with a transport that answers, fails or is cut off by the
\* timeout, which then surfaces as a network error, every invocation returns:
\* none stays at the send wait or at the body wait for ever, and each returns
\* once.
C10_Original ==
  /\ \A i \in Invocations : (pc[i] \in {"send", "json"}) ~> Done(i)
  /\ []ReturnedOnce
  /\ [][DoneIsFinal]_vars
  /\ []TimeoutIsNetworkError

\* C10, amended: as stated, but the timeout surfaces as a network error only
\* when it cuts the send off; when it cuts the reading of the body off, the
\* invocation returns an "Invalid JSON response" error.
C10_EveryInvocationReturns ==
  /\ \A i \in Invocations : (pc[i] \in {"send", "json"}) ~> Done(i)
  /\ []ReturnedOnce
  /\ [][DoneIsFinal]_vars
  /\ []TimeoutSurfaces

C10_Witness ==
  \E i \in Invocations :
    /\ Done(i) /\ returns[i] = 1
    /\ parsed[i] = 1
    /\ BodyTimedOut(i)
    /\ Failed(i, "Invalid JSON response: ")

====
